---- MODULE Spec2Model ----
(***************************************************************************)
(* Call-lifecycle engine of the PBX microservice:                          *)
(*   - packet ingestion (stream_packet / CallService.add_packet),          *)
(*   - the completion signal (complete_call),                              *)
(*   - the status state machine (CallStateMachine),                        *)
(*   - the background processor (CallProcessor) with its retry wrapper.    *)
(*                                                                         *)
(* The store is a PostgreSQL database reached through SQLAlchemy ORM       *)
(* sessions.  Every request and every poll pass owns a session; a session  *)
(* keeps the attributes of a row as they were when it loaded (or last      *)
(* refreshed) them, and a commit issues an UPDATE by primary key that      *)
(* sets only the attributes the session changed.  Every `await` of a       *)
(* handler is a point where other handlers run, so a handler is a          *)
(* sequence of atomic steps, one per database round trip.                  *)
(*                                                                         *)
(* Timestamps: completed_at is a per-row write stamp (0 is NULL, every     *)
(* write gives a fresh larger value); ai_processed_at is set / not set;    *)
(* created_at and updated_at are not modelled.                             *)
(***************************************************************************)
EXTENDS Integers, Sequences, FiniteSets, TLC

(***************************************************************************)
(* Bounds of the model                                                     *)
(***************************************************************************)
NumCalls == 2            \* distinct call ids the clients use
NumClients == 2          \* requests that can be in flight at once
MaxRequests == 3         \* requests started over a behaviour
MaxSeq == 2              \* packet sequences are 0..MaxSeq
MaxPolls == 2            \* poll cycles that found at least one call
MaxWalk == 5             \* transitions tried in the state-machine walk
TrackerMaxSeq == 4       \* packet sequences of the single-client run
TrackerMaxLen == 4       \* packets of the single-client run

(***************************************************************************)
(* Program constants                                                       *)
(***************************************************************************)
MAX_RETRY_ATTEMPTS == 5
RETRY_INITIAL_WAIT == 1
RETRY_MAX_WAIT == 60

CallIds == 1..NumCalls
Clients == 1..NumClients
Sequences_ == 0..MaxSeq

(***************************************************************************)
(* CallStatus and the call row                                             *)
(***************************************************************************)
IN_PROGRESS == "IN_PROGRESS"
COMPLETED == "COMPLETED"
PROCESSING_AI == "PROCESSING_AI"
FAILED == "FAILED"
ARCHIVED == "ARCHIVED"

CallStatus == {IN_PROGRESS, COMPLETED, PROCESSING_AI, FAILED, ARCHIVED}

NULL == "NULL"
ABSENT == "ABSENT"       \* status of a call_id with no row

\* The row get_or_create_call inserts, with the column defaults of Call.
Call ==
    [status |-> IN_PROGRESS,
     expected_sequence |-> 0,
     total_packets |-> 0,
     missing_packets |-> << >>,
     transcription |-> NULL,
     sentiment |-> NULL,
     ai_processing_attempts |-> 0,
     ai_processed_at |-> FALSE,
     completed_at |-> 0,
     error_message |-> NULL]

NoCall == [Call EXCEPT !.status = ABSENT]

Columns == DOMAIN Call

(***************************************************************************)
(* CallStateMachine                                                        *)
(***************************************************************************)
\* Variant of the table with one more edge (FAILED back to COMPLETED).
VALID_TRANSITIONS_with_retry_edge ==
    [s \in CallStatus |->
        CASE s = IN_PROGRESS -> {COMPLETED, FAILED}
          [] s = COMPLETED -> {PROCESSING_AI, ARCHIVED}
          [] s = PROCESSING_AI -> {COMPLETED, FAILED, ARCHIVED}
          [] s = FAILED -> {ARCHIVED, COMPLETED}
          [] s = ARCHIVED -> {}]

VALID_TRANSITIONS ==
    [s \in CallStatus |->
        CASE s = IN_PROGRESS -> {COMPLETED, FAILED}
          [] s = COMPLETED -> {PROCESSING_AI, ARCHIVED}
          [] s = PROCESSING_AI -> {COMPLETED, FAILED, ARCHIVED}
          [] s = FAILED -> {ARCHIVED}
          [] s = ARCHIVED -> {}]

\* VALID_TRANSITIONS.get(from_status, set())
can_transition(from_status, to_status) ==
    /\ from_status \in DOMAIN VALID_TRANSITIONS
    /\ to_status \in VALID_TRANSITIONS[from_status]

\* Variant of transition without the same-state shortcut.
transition_without_same_state(from_status, to_status) ==
    IF ~can_transition(from_status, to_status)
    THEN [ok |-> FALSE, status |-> from_status,
          error |-> <<from_status, to_status>>]
    ELSE [ok |-> TRUE, status |-> to_status, error |-> << >>]

\* ok = FALSE is the raise of StateTransitionError, whose message names
\* from_status and to_status.
transition(from_status, to_status) ==
    IF from_status = to_status
    THEN [ok |-> TRUE, status |-> to_status, error |-> << >>]
    ELSE IF ~can_transition(from_status, to_status)
    THEN [ok |-> FALSE, status |-> from_status,
          error |-> <<from_status, to_status>>]
    ELSE [ok |-> TRUE, status |-> to_status, error |-> << >>]

(***************************************************************************)
(* missing_packets is a comma-separated text; it is modelled by the        *)
(* sequence of its numbers.                                                *)
(***************************************************************************)
\* set(map(int, call.missing_packets.split(','))), the empty text giving set()
ParseMissing(text) == {text[i] : i \in DOMAIN text}

RECURSIVE SortedSeq(_)
SortedSeq(S) ==
    IF S = {} THEN << >>
    ELSE LET m == CHOOSE x \in S : \A y \in S : x <= y
         IN <<m>> \o SortedSeq(S \ {m})

\* ','.join(map(str, sorted(current_missing)))
JoinMissing(S) == SortedSeq(S)

(***************************************************************************)
(* CallService.add_packet, up to its commit: the attributes of the         *)
(* session's Call object after the assignments, and is_in_order.           *)
(***************************************************************************)
\* Variant of add_packet that takes a late packet out of missing_packets.
add_packet_filling_gaps(call, sequence) ==
    LET is_in_order == (sequence = call.expected_sequence)
        missing == call.expected_sequence .. (sequence - 1)
        missing_packets ==
            IF sequence > call.expected_sequence
            THEN JoinMissing(ParseMissing(call.missing_packets) \cup missing)
            ELSE JoinMissing(ParseMissing(call.missing_packets) \ {sequence})
        expected_sequence ==
            IF sequence >= call.expected_sequence
            THEN sequence + 1
            ELSE call.expected_sequence
    IN [call |-> [call EXCEPT !.missing_packets = missing_packets,
                              !.total_packets = call.total_packets + 1,
                              !.expected_sequence = expected_sequence],
        is_in_order |-> is_in_order]

\* Variant of add_packet that moves the cursor only past a gap
\* (sequence > expected_sequence instead of >=).
add_packet_cursor_after_gap_only(call, sequence) ==
    LET is_in_order == (sequence = call.expected_sequence)
        missing == call.expected_sequence .. (sequence - 1)
        missing_packets ==
            IF sequence > call.expected_sequence
            THEN JoinMissing(ParseMissing(call.missing_packets) \cup missing)
            ELSE call.missing_packets
        expected_sequence ==
            IF sequence > call.expected_sequence
            THEN sequence + 1
            ELSE call.expected_sequence
    IN [call |-> [call EXCEPT !.missing_packets = missing_packets,
                              !.total_packets = call.total_packets + 1,
                              !.expected_sequence = expected_sequence],
        is_in_order |-> is_in_order]

add_packet(call, sequence) ==
    LET is_in_order == (sequence = call.expected_sequence)
        missing == call.expected_sequence .. (sequence - 1)
        missing_packets ==
            IF sequence # call.expected_sequence
               /\ sequence > call.expected_sequence
            THEN JoinMissing(ParseMissing(call.missing_packets) \cup missing)
            ELSE call.missing_packets
        expected_sequence ==
            IF sequence >= call.expected_sequence
            THEN sequence + 1
            ELSE call.expected_sequence
    IN [call |-> [call EXCEPT !.missing_packets = missing_packets,
                              !.total_packets = call.total_packets + 1,
                              !.expected_sequence = expected_sequence],
        is_in_order |-> is_in_order]

(***************************************************************************)
(* The UPDATE a commit issues for a Call object: by primary key, setting   *)
(* the columns whose attribute differs from the value the session loaded,  *)
(* to the session's value; the other columns keep what the row holds.      *)
(***************************************************************************)
\* Variant of Flush that writes every column of the session's object.
Flush_every_column(row, loaded, object) == object

Flush(row, loaded, object) ==
    [col \in Columns |->
        IF object[col] # loaded[col] THEN object[col] ELSE row[col]]

\* Variant of update_call_status that does not store the error_message.
update_call_status_without_message(call, new_status, error_message, now) ==
    LET t == transition(call.status, new_status)
        c1 == [call EXCEPT !.status = new_status]
        c2 == IF new_status = COMPLETED
              THEN [c1 EXCEPT !.completed_at = now] ELSE c1
    IN [ok |-> t.ok, call |-> IF t.ok THEN c2 ELSE call]

(***************************************************************************)
(* CallService.update_call_status, up to its commit: the transition check  *)
(* against the session's status and the assignments.  completed_at gets    *)
(* the stamp `now`.                                                        *)
(***************************************************************************)
update_call_status(call, new_status, error_message, now) ==
    LET t == transition(call.status, new_status)
        c1 == [call EXCEPT !.status = new_status]
        c2 == IF new_status = COMPLETED
              THEN [c1 EXCEPT !.completed_at = now] ELSE c1
        c3 == IF new_status = FAILED /\ error_message # NULL
              THEN [c2 EXCEPT !.error_message = error_message] ELSE c2
    IN [ok |-> t.ok, call |-> IF t.ok THEN c3 ELSE call]

(***************************************************************************)
(* CallProcessor._combine_packet_data: the packets in a stable sort by     *)
(* sequence, their data joined; the text is modelled by the sequence of    *)
(* the joined data.                                                        *)
(***************************************************************************)
RECURSIVE InsertSorted(_, _)
InsertSorted(sorted, p) ==
    IF sorted = << >> THEN <<p>>
    ELSE IF sorted[Len(sorted)].sequence <= p.sequence
    THEN Append(sorted, p)
    ELSE Append(InsertSorted(SubSeq(sorted, 1, Len(sorted) - 1), p),
                sorted[Len(sorted)])

RECURSIVE SortBySequence(_)
SortBySequence(ps) ==
    IF ps = << >> THEN << >>
    ELSE InsertSorted(SortBySequence(SubSeq(ps, 1, Len(ps) - 1)), ps[Len(ps)])

\* Variant of _combine_packet_data that joins the packets as they are
\* stored, without sorting them.
_combine_packet_data_unsorted(ps) ==
    [i \in 1..Len(ps) |-> ps[i].data]

_combine_packet_data(ps) ==
    LET sorted_packets == SortBySequence(ps)
    IN [i \in 1..Len(sorted_packets) |-> sorted_packets[i].data]

(***************************************************************************)
(* State                                                                   *)
(***************************************************************************)
VARIABLES
    db,               \* table calls: call_id -> row (NoCall when there is none)
    call_packets,     \* table call_packets: call_id -> packets, in insert order
    req,              \* client slot -> the request in flight and its session
    started,          \* requests started so far
    proc_pc,          \* position of the processor task
    pending,          \* `calls` of _process_pending_calls not yet iterated
    current,          \* call_id of the call in _process_single_call
    session,          \* the pass's session: call_id -> loaded Call attributes
    audio_data,       \* the combined packet data of the current call
    attempt_number,   \* invocations made by _process_with_retry
    raised,           \* exception caught by the retry wrapper or the processor
    polls,            \* poll cycles that found a call
    is_running,       \* CallProcessor.is_running
    slept,            \* waits retry_with_backoff computed in the current pass
    response,         \* the last HTTP response sent
    claimed,          \* history: call_id -> claims committed by the processor
    accepted,         \* history: call_id -> sequences of the committed ingests
    enriched,         \* history: call_id -> passes that stored an AI result
    sm,               \* state-machine walk: status, last transition tried
    tracker,          \* single-client run: row, history of ingests
    posted            \* boundary run: the body last posted to /v1/call/stream

main_vars == <<db, call_packets, req, started, proc_pc, pending, current,
               session, audio_data, attempt_number, raised, polls,
               is_running, slept, response, claimed, accepted, enriched>>
proc_vars == <<proc_pc, pending, current, session, audio_data,
               attempt_number, raised, polls, is_running, slept, claimed,
               enriched>>
vars == <<main_vars, sm, tracker, posted>>

Idle ==
    [pc |-> "idle", op |-> "none", call_id |-> 0, sequence |-> 0,
     data |-> 0, call |-> NoCall]

NoException == "none"

NoResponse ==
    [op |-> "none", call_id |-> 0, status_code |-> 0, status |-> "",
     updated |-> FALSE]

sm0 == [status |-> IN_PROGRESS, from |-> IN_PROGRESS, to |-> IN_PROGRESS,
        ok |-> TRUE, returned |-> IN_PROGRESS, error |-> << >>, steps |-> 0]

tracker0 == [call |-> Call, before |-> Call, sequences |-> << >>,
             in_order |-> << >>]

NoPacket == [call_id |-> 0, sequence |-> 0, data |-> << >>, timestamp |-> 0]

MainInit ==
    /\ db = [c \in CallIds |-> NoCall]
    /\ call_packets = [c \in CallIds |-> << >>]
    /\ req = [k \in Clients |-> Idle]
    /\ started = 0
    /\ proc_pc = "sleep"
    /\ pending = {}
    /\ current = 0
    /\ session = [c \in CallIds |-> NoCall]
    /\ audio_data = << >>
    /\ attempt_number = 0
    /\ raised = NoException
    /\ polls = 0
    /\ is_running = TRUE
    /\ slept = << >>
    /\ response = NoResponse
    /\ claimed = [c \in CallIds |-> 0]
    /\ accepted = [c \in CallIds |-> << >>]
    /\ enriched = [c \in CallIds |-> 0]

Init ==
    /\ MainInit
    /\ sm = sm0
    /\ tracker = tracker0
    /\ posted = NoPacket

(***************************************************************************)
(* Requests.  A request takes the lowest idle client slot.                 *)
(***************************************************************************)
FreeSlot(k) ==
    /\ is_running
    /\ req[k].pc = "idle"
    /\ \A j \in Clients : j < k => req[j].pc # "idle"
    /\ started < MaxRequests

\* The JSON a handler returns (or the HTTPException it raises): the HTTP
\* status code and the body's `status`; `updated` records whether the
\* handler committed a write before it answered.
Respond(k, status_code, status, updated) ==
    [op |-> req[k].op, call_id |-> req[k].call_id,
     status_code |-> status_code, status |-> status, updated |-> updated]

\* POST /v1/call/stream/{call_id} arrives with a valid PacketMetadata.
StreamPacketArrives(k, call_id, sequence) ==
    /\ FreeSlot(k)
    /\ req' = [req EXCEPT ![k] =
                  [pc |-> "get_or_create", op |-> "stream",
                   call_id |-> call_id, sequence |-> sequence,
                   data |-> started + 1, call |-> NoCall]]
    /\ started' = started + 1
    /\ UNCHANGED <<db, call_packets, accepted, response, proc_vars, sm, tracker, posted>>

\* get_or_create_call: the SELECT.
GetOrCreateSelect(k) ==
    /\ req[k].pc = "get_or_create"
    /\ LET row == db[req[k].call_id]
       IN req' = [req EXCEPT ![k].call = row,
                             ![k].pc = IF row.status = ABSENT
                                       THEN "create" ELSE "add_packet"]
    /\ UNCHANGED <<db, call_packets, started, accepted, response, proc_vars,
                   sm, tracker, posted>>

\* Variant of GetOrCreateInsert in which the request that loses the INSERT
\* answers 202 without storing its packet.
GetOrCreateInsert_ignoring_conflict(k) ==
    /\ req[k].pc = "create"
    /\ IF db[req[k].call_id].status = ABSENT
       THEN /\ db' = [db EXCEPT ![req[k].call_id] = Call]
            /\ req' = [req EXCEPT ![k].pc = "refresh"]
            /\ UNCHANGED response
       ELSE /\ req' = [req EXCEPT ![k] = Idle]
            /\ response' = Respond(k, 202, "accepted", FALSE)
            /\ UNCHANGED db
    /\ UNCHANGED <<call_packets, started, accepted, proc_vars, sm, tracker,
                   posted>>

\* get_or_create_call: db.add(call); commit.  call_id is unique: when the
\* row has been inserted meanwhile the INSERT raises IntegrityError, which
\* stream_packet turns into a 500 response.
GetOrCreateInsert(k) ==
    /\ req[k].pc = "create"
    /\ IF db[req[k].call_id].status = ABSENT
       THEN /\ db' = [db EXCEPT ![req[k].call_id] = Call]
            /\ req' = [req EXCEPT ![k].pc = "refresh"]
            /\ UNCHANGED response
       ELSE /\ req' = [req EXCEPT ![k] = Idle]
            /\ response' = Respond(k, 500, "error", FALSE)
            /\ UNCHANGED db
    /\ UNCHANGED <<call_packets, started, accepted, proc_vars, sm, tracker, posted>>

\* get_or_create_call: db.refresh(call).
GetOrCreateRefresh(k) ==
    /\ req[k].pc = "refresh"
    /\ req' = [req EXCEPT ![k].call = db[req[k].call_id],
                          ![k].pc = "add_packet"]
    /\ UNCHANGED <<db, call_packets, started, accepted, response, proc_vars,
                   sm, tracker, posted>>

\* Variant of AddPacketCommit that waits while the processor awaits the AI
\* service or a backoff for the same call.
AddPacketCommit_waiting_for_processor(k) ==
    /\ req[k].pc = "add_packet"
    /\ ~(proc_pc \in {"ai_service", "backoff"} /\ current = req[k].call_id)
    /\ LET c == req[k].call_id
           r == add_packet(req[k].call, req[k].sequence)
           packet == [sequence |-> req[k].sequence, data |-> req[k].data]
       IN /\ db' = [db EXCEPT ![c] = Flush(db[c], req[k].call, r.call)]
          /\ call_packets' = [call_packets EXCEPT ![c] = Append(@, packet)]
          /\ accepted' = [accepted EXCEPT ![c] = Append(@, req[k].sequence)]
          /\ response' = Respond(k, 202, IF r.is_in_order THEN "accepted"
                                         ELSE "accepted_with_warning",
                                 TRUE)
    /\ req' = [req EXCEPT ![k] = Idle]
    /\ UNCHANGED <<started, proc_vars, sm, tracker, posted>>

\* Variant of AddPacketCommit that stores one packet per sequence: a packet
\* whose sequence is already stored replaces the stored one.
AddPacketCommit_replacing_same_sequence(k) ==
    /\ req[k].pc = "add_packet"
    /\ LET c == req[k].call_id
           r == add_packet(req[k].call, req[k].sequence)
           packet == [sequence |-> req[k].sequence, data |-> req[k].data]
           stored == {i \in DOMAIN call_packets[c] :
                         call_packets[c][i].sequence = req[k].sequence}
       IN /\ db' = [db EXCEPT ![c] = Flush(db[c], req[k].call, r.call)]
          /\ call_packets' = [call_packets EXCEPT ![c] =
                 IF stored = {} THEN Append(@, packet)
                 ELSE [i \in DOMAIN @ |-> IF i \in stored THEN packet ELSE @[i]]]
          /\ accepted' = [accepted EXCEPT ![c] = Append(@, req[k].sequence)]
          /\ response' = Respond(k, 202, IF r.is_in_order THEN "accepted"
                                         ELSE "accepted_with_warning",
                                 TRUE)
    /\ req' = [req EXCEPT ![k] = Idle]
    /\ UNCHANGED <<started, proc_vars, sm, tracker, posted>>

\* add_packet: the assignments on the session's Call, the INSERT of the
\* packet and the UPDATE of the call, committed together; then the 202.
AddPacketCommit(k) ==
    /\ req[k].pc = "add_packet"
    /\ LET c == req[k].call_id
           r == add_packet(req[k].call, req[k].sequence)
           packet == [sequence |-> req[k].sequence, data |-> req[k].data]
       IN /\ db' = [db EXCEPT ![c] = Flush(db[c], req[k].call, r.call)]
          /\ call_packets' = [call_packets EXCEPT ![c] = Append(@, packet)]
          /\ accepted' = [accepted EXCEPT ![c] = Append(@, req[k].sequence)]
          /\ response' = Respond(k, 202, IF r.is_in_order THEN "accepted"
                                         ELSE "accepted_with_warning",
                                 TRUE)
    /\ req' = [req EXCEPT ![k] = Idle]
    /\ UNCHANGED <<started, proc_vars, sm, tracker, posted>>

\* POST /v1/call/complete/{call_id} arrives.
CompleteCallArrives(k, call_id) ==
    /\ FreeSlot(k)
    /\ req' = [req EXCEPT ![k] =
                  [pc |-> "get_call_by_id", op |-> "complete",
                   call_id |-> call_id, sequence |-> 0,
                   data |-> 0, call |-> NoCall]]
    /\ started' = started + 1
    /\ UNCHANGED <<db, call_packets, accepted, response, proc_vars, sm, tracker, posted>>

\* Variant of CompleteCallSelect without the check of the statuses that can
\* reach COMPLETED.
CompleteCallSelect_completing_any(k) ==
    /\ req[k].pc = "get_call_by_id"
    /\ LET row == db[req[k].call_id]
       IN IF row.status = ABSENT
          THEN /\ req' = [req EXCEPT ![k] = Idle]
               /\ response' = Respond(k, 404, "not found", FALSE)
          ELSE IF row.status = COMPLETED
          THEN /\ req' = [req EXCEPT ![k] = Idle]
               /\ response' = Respond(k, 200, row.status, FALSE)
          ELSE /\ req' = [req EXCEPT ![k].call = row,
                                     ![k].pc = "update_call_status"]
               /\ UNCHANGED response
    /\ UNCHANGED <<db, call_packets, started, accepted, proc_vars, sm, tracker, posted>>

\* Variant of CompleteCallSelect without the early return for a call that
\* is already COMPLETED.
CompleteCallSelect_without_early_return(k) ==
    /\ req[k].pc = "get_call_by_id"
    /\ LET row == db[req[k].call_id]
       IN IF row.status = ABSENT
          THEN /\ req' = [req EXCEPT ![k] = Idle]
               /\ response' = Respond(k, 404, "not found", FALSE)
          ELSE IF row.status \notin {IN_PROGRESS, PROCESSING_AI, COMPLETED}
          THEN /\ req' = [req EXCEPT ![k] = Idle]
               /\ response' = Respond(k, 400, "cannot complete", FALSE)
          ELSE /\ req' = [req EXCEPT ![k].call = row,
                                     ![k].pc = "update_call_status"]
               /\ UNCHANGED response
    /\ UNCHANGED <<db, call_packets, started, accepted, proc_vars, sm, tracker, posted>>

\* complete_call: get_call_by_id and the checks on the loaded status.
\* 404 when there is no row, 200 when already COMPLETED, 400 when the
\* status is neither IN_PROGRESS nor PROCESSING_AI.
CompleteCallSelect(k) ==
    /\ req[k].pc = "get_call_by_id"
    /\ LET row == db[req[k].call_id]
       IN IF row.status = ABSENT
          THEN /\ req' = [req EXCEPT ![k] = Idle]
               /\ response' = Respond(k, 404, "not found", FALSE)
          ELSE IF row.status = COMPLETED
          THEN /\ req' = [req EXCEPT ![k] = Idle]
               /\ response' = Respond(k, 200, row.status, FALSE)
          ELSE IF row.status \notin {IN_PROGRESS, PROCESSING_AI}
          THEN /\ req' = [req EXCEPT ![k] = Idle]
               /\ response' = Respond(k, 400, "cannot complete", FALSE)
          ELSE /\ req' = [req EXCEPT ![k].call = row,
                                     ![k].pc = "update_call_status"]
               /\ UNCHANGED response
    /\ UNCHANGED <<db, call_packets, started, accepted, proc_vars, sm, tracker, posted>>

\* complete_call: update_call_status(db, call, COMPLETED), its commit and
\* refresh, and the response.  A StateTransitionError is not handled by
\* complete_call and gives a 500.
CompleteCallCommit(k) ==
    /\ req[k].pc = "update_call_status"
    /\ LET c == req[k].call_id
           u == update_call_status(req[k].call, COMPLETED, NULL,
                                   db[c].completed_at + 1)
       IN IF u.ok
          THEN /\ db' = [db EXCEPT ![c] = Flush(db[c], req[k].call, u.call)]
               /\ response' = Respond(k, 200, db'[c].status, TRUE)
          ELSE /\ response' = Respond(k, 500, "error", FALSE)
               /\ UNCHANGED db
    /\ req' = [req EXCEPT ![k] = Idle]
    /\ UNCHANGED <<call_packets, started, accepted, proc_vars, sm, tracker, posted>>

(***************************************************************************)
(* CallProcessor.  One task runs start(); each _process_pending_calls      *)
(* opens a session of its own, which lives until the pass is over.         *)
(***************************************************************************)
req_vars == <<req, started, accepted, response>>

\* What tenacity's retry(...) raises when stop_after_attempt is reached: no
\* reraise=True is given, so it is a RetryError wrapping the last failure.
RetryExhausted == "RetryError"

\* A failure of ai_service.process_call that is no AIServiceError.
OtherError == "Exception"

\* Variant of stop_after_attempt that stops one attempt late.
stop_after_attempt_one_late(n) == n > MAX_RETRY_ATTEMPTS

\* stop=stop_after_attempt(settings.MAX_RETRY_ATTEMPTS)
stop_after_attempt(n) == n >= MAX_RETRY_ATTEMPTS

\* Variant of the retry predicate that retries every exception.
retry_if_exception_type_any(e) == TRUE

\* retry=retry_if_exception_type(AIServiceError)
retry_if_exception_type(e) == e = "AIServiceError"

RECURSIVE Pow(_, _)
Pow(b, n) == IF n = 0 THEN 1 ELSE b * Pow(b, n - 1)

Min(a, b) == IF a <= b THEN a ELSE b
Max(a, b) == IF a >= b THEN a ELSE b

\* tenacity's default exp_base of wait_exponential
EXP_BASE == 2

\* Variant of wait_exponential whose exponent is the attempt number.
wait_exponential_from_attempt(n) ==
    Max(0, Min(RETRY_INITIAL_WAIT * Pow(EXP_BASE, n), RETRY_MAX_WAIT))

\* wait=wait_exponential(multiplier=settings.RETRY_INITIAL_WAIT,
\* max=settings.RETRY_MAX_WAIT): the wait after failed attempt n.
wait_exponential(n) ==
    Max(0, Min(RETRY_INITIAL_WAIT * Pow(EXP_BASE, n - 1), RETRY_MAX_WAIT))

\* The error_message _process_single_call stores for the exception caught.
ErrorMessage(e) ==
    IF e = "AIServiceError"
    THEN "AI service failed after retries: 503 Service Unavailable"
    ELSE IF e = "RetryError"
    THEN "Unexpected error: RetryError[AIServiceError]"
    ELSE IF e = "StateTransitionError"
    THEN "Unexpected error: Invalid state transition"
    ELSE "Unexpected error: Exception"

\* get_calls_for_processing: the rows with status COMPLETED at the time of
\* the SELECT, loaded into the pass's session.  A poll that finds no call
\* changes nothing.
get_calls_for_processing == {c \in CallIds : db[c].status = COMPLETED}

Poll ==
    /\ proc_pc = "sleep"
    /\ is_running
    /\ polls < MaxPolls
    /\ get_calls_for_processing # {}
    /\ pending' = get_calls_for_processing
    /\ session' = [c \in CallIds |->
                      IF c \in get_calls_for_processing THEN db[c] ELSE NoCall]
    /\ polls' = polls + 1
    /\ proc_pc' = "for_call"
    /\ UNCHANGED <<db, call_packets, req_vars, current, audio_data,
                   attempt_number, raised, enriched, is_running, slept,
                   claimed, sm, tracker, posted>>

\* Variant of Claim that changes the status on the session's Call only and
\* does not commit it.
Claim_without_commit(c) ==
    /\ proc_pc = "for_call"
    /\ c \in pending
    /\ pending' = pending \ {c}
    /\ current' = c
    /\ LET u == update_call_status(session[c], PROCESSING_AI, NULL,
                                   db[c].completed_at + 1)
       IN IF u.ok
          THEN /\ session' = [session EXCEPT ![c] = u.call]
               /\ claimed' = [claimed EXCEPT ![c] = @ + 1]
               /\ proc_pc' = "claim_refresh"
               /\ UNCHANGED <<db, raised>>
          ELSE /\ raised' = "StateTransitionError"
               /\ proc_pc' = "failed"
               /\ UNCHANGED <<db, session, claimed>>
    /\ UNCHANGED <<call_packets, req_vars, audio_data, attempt_number, polls,
                   enriched, is_running, slept, sm, tracker, posted>>

\* Step 1 of _process_single_call for the next call of the list (the SELECT
\* has no ORDER BY): update_call_status(db, call, PROCESSING_AI) up to its
\* commit.  The transition is checked against the status the poll loaded.
Claim(c) ==
    /\ proc_pc = "for_call"
    /\ c \in pending
    /\ pending' = pending \ {c}
    /\ current' = c
    /\ LET u == update_call_status(session[c], PROCESSING_AI, NULL,
                                   db[c].completed_at + 1)
       IN IF u.ok
          THEN /\ db' = [db EXCEPT ![c] = Flush(db[c], session[c], u.call)]
               /\ session' = [session EXCEPT ![c] = u.call]
               /\ claimed' = [claimed EXCEPT ![c] = @ + 1]
               /\ proc_pc' = "claim_refresh"
               /\ UNCHANGED raised
          ELSE /\ raised' = "StateTransitionError"
               /\ proc_pc' = "failed"
               /\ UNCHANGED <<db, session, claimed>>
    /\ UNCHANGED <<call_packets, req_vars, audio_data, attempt_number, polls,
                   enriched, is_running, slept, sm, tracker, posted>>

\* db.refresh(call) at the end of update_call_status.
ClaimRefresh ==
    /\ proc_pc = "claim_refresh"
    /\ session' = [session EXCEPT ![current] = db[current]]
    /\ proc_pc' = "load_packets"
    /\ UNCHANGED <<db, call_packets, req_vars, pending, current, audio_data,
                   attempt_number, raised, polls, enriched, is_running, slept,
                   claimed, sm, tracker, posted>>

\* Variant of LoadPackets that fails on a call without packets.
LoadPackets_needing_a_packet ==
    /\ proc_pc = "load_packets"
    /\ IF call_packets[current] = << >>
       THEN /\ raised' = OtherError
            /\ proc_pc' = "failed"
            /\ UNCHANGED <<audio_data, attempt_number>>
       ELSE /\ audio_data' = _combine_packet_data(call_packets[current])
            /\ attempt_number' = 1
            /\ proc_pc' = "ai_service"
            /\ UNCHANGED raised
    /\ slept' = << >>
    /\ UNCHANGED <<db, call_packets, req_vars, pending, current, session,
                   polls, enriched, is_running, claimed, sm, tracker, posted>>

\* Steps 2 to 4: the SELECT with selectinload(Call.packets) (the attributes
\* the session holds are kept), _combine_packet_data, and the first
\* invocation of ai_service.process_call.
LoadPackets ==
    /\ proc_pc = "load_packets"
    /\ audio_data' = _combine_packet_data(call_packets[current])
    /\ attempt_number' = 1
    /\ slept' = << >>
    /\ proc_pc' = "ai_service"
    /\ UNCHANGED <<db, call_packets, req_vars, pending, current, session,
                   raised, polls, enriched, is_running, claimed, sm, tracker, posted>>

\* ai_service.process_call returns a result.
AIServiceReturns ==
    /\ proc_pc = "ai_service"
    /\ proc_pc' = "store_result"
    /\ UNCHANGED <<db, call_packets, req_vars, pending, current, session,
                   audio_data, attempt_number, raised, polls, enriched,
                   is_running, slept, claimed, sm, tracker, posted>>

\* ai_service.process_call raises e under retry_with_backoff: an exception
\* the retry predicate does not accept propagates; otherwise the wrapper
\* stops with RetryError when stop_after_attempt says so, and else keeps
\* the exception as the attempt's outcome, computes the wait and sleeps.
AIServiceRaises(e) ==
    /\ proc_pc = "ai_service"
    /\ IF ~retry_if_exception_type(e)
       THEN /\ proc_pc' = "failed"
            /\ raised' = e
            /\ UNCHANGED slept
       ELSE IF stop_after_attempt(attempt_number)
       THEN /\ proc_pc' = "failed"
            /\ raised' = RetryExhausted
            /\ UNCHANGED slept
       ELSE /\ proc_pc' = "backoff"
            /\ raised' = e
            /\ slept' = Append(slept, wait_exponential(attempt_number))
    /\ UNCHANGED <<db, call_packets, req_vars, pending, current, session,
                   audio_data, attempt_number, polls, enriched, is_running,
                   claimed, sm, tracker, posted>>

\* ai_service.process_call raises AIServiceError (503).
AIServiceFails == AIServiceRaises("AIServiceError")

\* ai_service.process_call fails with an exception of another type.
AIServiceRaisesOther == AIServiceRaises(OtherError)

\* The backoff wait is over: the next invocation.
Backoff ==
    /\ proc_pc = "backoff"
    /\ attempt_number' = attempt_number + 1
    /\ raised' = NoException
    /\ proc_pc' = "ai_service"
    /\ UNCHANGED <<db, call_packets, req_vars, pending, current, session,
                   audio_data, polls, enriched, is_running, slept,
                   claimed, sm, tracker, posted>>

\* Variant of StoreResult that leaves ai_processing_attempts as it is.
StoreResult_not_counting ==
    /\ proc_pc = "store_result"
    /\ LET call == session[current]
           object == [call EXCEPT
                         !.transcription = "transcription",
                         !.sentiment = "sentiment",
                         !.ai_processed_at = TRUE]
       IN /\ db' = [db EXCEPT ![current] = Flush(db[current], call, object)]
          /\ session' = [session EXCEPT ![current] = object]
    /\ proc_pc' = "store_refresh"
    /\ UNCHANGED <<call_packets, req_vars, pending, current, audio_data,
                   attempt_number, raised, polls, enriched, is_running, slept,
                   claimed, sm, tracker, posted>>

\* Step 5 up to its commit: the SELECT returns the Call the session already
\* holds (its loaded attributes are kept); the results and
\* ai_processing_attempts += 1 are written.
StoreResult ==
    /\ proc_pc = "store_result"
    /\ LET call == session[current]
           object == [call EXCEPT
                         !.transcription = "transcription",
                         !.sentiment = "sentiment",
                         !.ai_processed_at = TRUE,
                         !.ai_processing_attempts = @ + 1]
       IN /\ db' = [db EXCEPT ![current] = Flush(db[current], call, object)]
          /\ session' = [session EXCEPT ![current] = object]
    /\ proc_pc' = "store_refresh"
    /\ UNCHANGED <<call_packets, req_vars, pending, current, audio_data,
                   attempt_number, raised, polls, enriched, is_running, slept,
                   claimed, sm, tracker, posted>>

\* db.refresh(call) after the commit of step 5.
StoreRefresh ==
    /\ proc_pc = "store_refresh"
    /\ session' = [session EXCEPT ![current] = db[current]]
    /\ proc_pc' = "back_to_completed"
    /\ UNCHANGED <<db, call_packets, req_vars, pending, current, audio_data,
                   attempt_number, raised, polls, enriched, is_running, slept,
                   claimed, sm, tracker, posted>>

\* Variant of BackToCompleted that archives the enriched call.
BackToCompleted_archiving ==
    /\ proc_pc = "back_to_completed"
    /\ LET call == session[current]
           u == update_call_status(call, ARCHIVED, NULL,
                                   db[current].completed_at + 1)
       IN IF u.ok
          THEN /\ db' = [db EXCEPT ![current] = Flush(db[current], call, u.call)]
               /\ enriched' = [enriched EXCEPT ![current] = @ + 1]
               /\ proc_pc' = "for_call"
               /\ UNCHANGED raised
          ELSE /\ raised' = "StateTransitionError"
               /\ proc_pc' = "failed"
               /\ UNCHANGED <<db, enriched>>
    /\ UNCHANGED <<call_packets, req_vars, pending, current, session,
                   audio_data, attempt_number, polls, is_running, slept,
                   claimed, sm, tracker, posted>>

\* Variant of BackToCompleted that goes on to the next call without the
\* update to COMPLETED.
BackToCompleted_without_update ==
    /\ proc_pc = "back_to_completed"
    /\ enriched' = [enriched EXCEPT ![current] = @ + 1]
    /\ proc_pc' = "for_call"
    /\ UNCHANGED <<db, raised, call_packets, req_vars, pending, current,
                   session, audio_data, attempt_number, polls, is_running,
                   slept, claimed, sm, tracker, posted>>

\* Step 6: update_call_status(db, call, COMPLETED) with its commit and
\* refresh, and processed_count += 1 (kept per call in `enriched`).
BackToCompleted ==
    /\ proc_pc = "back_to_completed"
    /\ LET call == session[current]
           u == update_call_status(call, COMPLETED, NULL,
                                   db[current].completed_at + 1)
       IN IF u.ok
          THEN /\ db' = [db EXCEPT ![current] = Flush(db[current], call, u.call)]
               /\ enriched' = [enriched EXCEPT ![current] = @ + 1]
               /\ proc_pc' = "for_call"
               /\ UNCHANGED raised
          ELSE /\ raised' = "StateTransitionError"
               /\ proc_pc' = "failed"
               /\ UNCHANGED <<db, enriched>>
    /\ UNCHANGED <<call_packets, req_vars, pending, current, session,
                   audio_data, attempt_number, polls, is_running, slept,
                   claimed, sm, tracker, posted>>

\* The except branches of _process_single_call, first half: the SELECT
\* returns the Call the session holds, ai_processing_attempts += 1, commit
\* (no refresh follows).
CountFailedAttempt ==
    /\ proc_pc = "failed"
    /\ LET call == session[current]
           object == [call EXCEPT !.ai_processing_attempts = @ + 1]
       IN /\ db' = [db EXCEPT ![current] = Flush(db[current], call, object)]
          /\ session' = [session EXCEPT ![current] = object]
    /\ proc_pc' = "mark_failed"
    /\ UNCHANGED <<call_packets, req_vars, pending, current, audio_data,
                   attempt_number, raised, polls, enriched, is_running, slept,
                   claimed, sm, tracker, posted>>

\* Variant of MarkFailed in which the failure ends the pass: the calls left
\* in the list are dropped.
MarkFailed_ending_the_pass ==
    /\ proc_pc = "mark_failed"
    /\ LET call == session[current]
           u == update_call_status(call, FAILED, ErrorMessage(raised),
                                   db[current].completed_at + 1)
       IN db' = IF u.ok
                THEN [db EXCEPT ![current] = Flush(db[current], call, u.call)]
                ELSE db
    /\ raised' = NoException
    /\ pending' = {}
    /\ proc_pc' = "for_call"
    /\ UNCHANGED <<call_packets, req_vars, current, session,
                   audio_data, attempt_number, polls, enriched, is_running,
                   slept, claimed, sm, tracker, posted>>

\* Variant of MarkFailed that stores the error_message also when the
\* transition to FAILED is rejected.
MarkFailed_storing_message_anyway ==
    /\ proc_pc = "mark_failed"
    /\ LET call == session[current]
           u == update_call_status(call, FAILED, ErrorMessage(raised),
                                   db[current].completed_at + 1)
       IN db' = IF u.ok
                THEN [db EXCEPT ![current] = Flush(db[current], call, u.call)]
                ELSE [db EXCEPT ![current].error_message = ErrorMessage(raised)]
    /\ raised' = NoException
    /\ proc_pc' = "for_call"
    /\ UNCHANGED <<call_packets, req_vars, pending, current, session,
                   audio_data, attempt_number, polls, enriched, is_running,
                   slept, claimed, sm, tracker, posted>>

\* Variant of MarkFailed in which a StateTransitionError raised by the
\* update to FAILED is caught by nothing below the pass: it ends the pass.
MarkFailed_without_inner_except ==
    /\ proc_pc = "mark_failed"
    /\ LET call == session[current]
           u == update_call_status(call, FAILED, ErrorMessage(raised),
                                   db[current].completed_at + 1)
       IN IF u.ok
          THEN /\ db' = [db EXCEPT ![current] = Flush(db[current], call, u.call)]
               /\ raised' = NoException
               /\ UNCHANGED pending
          ELSE /\ raised' = "StateTransitionError"
               /\ pending' = {}
               /\ UNCHANGED db
    /\ proc_pc' = "for_call"
    /\ UNCHANGED <<call_packets, req_vars, current, session,
                   audio_data, attempt_number, polls, enriched, is_running,
                   slept, claimed, sm, tracker, posted>>

\* The except branches, second half: update_call_status(db, call, FAILED,
\* error_message).  A StateTransitionError raised here is logged, by the
\* inner except or by the loop of _process_pending_calls.
MarkFailed ==
    /\ proc_pc = "mark_failed"
    /\ LET call == session[current]
           u == update_call_status(call, FAILED, ErrorMessage(raised),
                                   db[current].completed_at + 1)
       IN db' = IF u.ok
                THEN [db EXCEPT ![current] = Flush(db[current], call, u.call)]
                ELSE db
    /\ raised' = NoException
    /\ proc_pc' = "for_call"
    /\ UNCHANGED <<call_packets, req_vars, pending, current, session,
                   audio_data, attempt_number, polls, enriched, is_running,
                   slept, claimed, sm, tracker, posted>>

\* The list is exhausted: the session is closed and start() sleeps for
\* poll_interval.
EndPass ==
    /\ proc_pc = "for_call"
    /\ pending = {}
    /\ session' = [c \in CallIds |-> NoCall]
    /\ current' = 0
    /\ audio_data' = << >>
    /\ attempt_number' = 0
    /\ slept' = << >>
    /\ proc_pc' = "sleep"
    /\ UNCHANGED <<db, call_packets, req_vars, pending, raised, polls,
                   enriched, is_running, claimed, sm, tracker, posted>>

\* Application shutdown (lifespan): call_processor.stop() and
\* processor_task.cancel().  The server has answered its requests by then.
\* CancelledError is raised at the await the task is suspended on; it is no
\* Exception, so no except clause of the processor catches it: the
\* operation awaited is abandoned, the session is closed and the task ends.
Shutdown ==
    /\ is_running
    /\ \A k \in Clients : req[k].pc = "idle"
    /\ is_running' = FALSE
    /\ proc_pc' = "cancelled"
    /\ pending' = {}
    /\ session' = [c \in CallIds |-> NoCall]
    /\ audio_data' = << >>
    /\ attempt_number' = 0
    /\ slept' = << >>
    /\ raised' = NoException
    /\ UNCHANGED <<db, call_packets, req_vars, current, polls, enriched,
                   claimed, sm, tracker, posted>>

Next ==
    \/ \E k \in Clients, c \in CallIds, s \in Sequences_ :
          StreamPacketArrives(k, c, s)
    \/ \E k \in Clients : GetOrCreateSelect(k)
    \/ \E k \in Clients : GetOrCreateInsert(k)
    \/ \E k \in Clients : GetOrCreateRefresh(k)
    \/ \E k \in Clients : AddPacketCommit(k)
    \/ \E k \in Clients, c \in CallIds : CompleteCallArrives(k, c)
    \/ \E k \in Clients : CompleteCallSelect(k)
    \/ \E k \in Clients : CompleteCallCommit(k)
    \/ Poll
    \/ \E c \in CallIds : Claim(c)
    \/ ClaimRefresh
    \/ LoadPackets
    \/ AIServiceReturns
    \/ AIServiceFails
    \/ AIServiceRaisesOther
    \/ Backoff
    \/ StoreResult
    \/ StoreRefresh
    \/ BackToCompleted
    \/ CountFailedAttempt
    \/ MarkFailed
    \/ EndPass
    \/ Shutdown

Spec == Init /\ [][Next]_vars

(***************************************************************************)
(* The state machine alone: a status is walked through transitions tried   *)
(* with every target; a rejected transition leaves the status as it is.    *)
(***************************************************************************)
SmInit ==
    /\ MainInit
    /\ tracker = tracker0
    /\ posted = NoPacket
    /\ sm \in {[sm0 EXCEPT !.status = s, !.from = s, !.to = s, !.returned = s] :
                 s \in CallStatus}

SmTransition(to_status) ==
    /\ sm.steps < MaxWalk
    /\ LET t == transition(sm.status, to_status)
       IN sm' = [status |-> t.status, from |-> sm.status, to |-> to_status,
                 ok |-> t.ok, returned |-> t.status, error |-> t.error,
                 steps |-> sm.steps + 1]
    /\ UNCHANGED <<main_vars, tracker, posted>>

SmNext == \E to_status \in CallStatus : SmTransition(to_status)

SpecStateMachine == SmInit /\ [][SmNext]_vars

(***************************************************************************)
(* One client alone: stream_packet requests for one new call, each run to  *)
(* its response before the next starts (the row exists, the session loads  *)
(* it, add_packet commits).                                                *)
(***************************************************************************)
TrackerInit ==
    /\ MainInit
    /\ sm = sm0
    /\ tracker = tracker0
    /\ posted = NoPacket

TrackerStreamPacket(sequence) ==
    /\ Len(tracker.sequences) < TrackerMaxLen
    /\ LET call == tracker.call
           r == add_packet(call, sequence)
       IN tracker' = [call |-> Flush(call, call, r.call),
                      before |-> call,
                      sequences |-> Append(tracker.sequences, sequence),
                      in_order |-> Append(tracker.in_order, r.is_in_order)]
    /\ UNCHANGED <<main_vars, sm, posted>>

TrackerNext == \E sequence \in 0..TrackerMaxSeq : TrackerStreamPacket(sequence)

SpecTracker == TrackerInit /\ [][TrackerNext]_vars

(***************************************************************************)
(* The processor with several calls to enrich: every call has received     *)
(* packet 0 and its completion signal (counted in `started`); further      *)
(* completion signals arrive while the processor runs.                     *)
(***************************************************************************)
CompletedCall ==
    update_call_status(add_packet(Call, 0).call, COMPLETED, NULL, 1).call

ProcInit ==
    /\ db = [c \in CallIds |-> CompletedCall]
    /\ call_packets = [c \in CallIds |-> <<[sequence |-> 0, data |-> c]>>]
    /\ accepted = [c \in CallIds |-> <<0>>]
    /\ req = [k \in Clients |-> Idle]
    /\ started = NumCalls
    /\ proc_pc = "sleep"
    /\ pending = {}
    /\ current = 0
    /\ session = [c \in CallIds |-> NoCall]
    /\ audio_data = << >>
    /\ attempt_number = 0
    /\ raised = NoException
    /\ polls = 0
    /\ is_running = TRUE
    /\ slept = << >>
    /\ response = NoResponse
    /\ claimed = [c \in CallIds |-> 0]
    /\ enriched = [c \in CallIds |-> 0]
    /\ sm = sm0
    /\ tracker = tracker0
    /\ posted = NoPacket

ProcNext ==
    \/ \E k \in Clients, c \in CallIds : CompleteCallArrives(k, c)
    \/ \E k \in Clients : CompleteCallSelect(k)
    \/ \E k \in Clients : CompleteCallCommit(k)
    \/ Poll
    \/ \E c \in CallIds : Claim(c)
    \/ ClaimRefresh
    \/ LoadPackets
    \/ AIServiceReturns
    \/ AIServiceFails
    \/ AIServiceRaisesOther
    \/ Backoff
    \/ StoreResult
    \/ StoreRefresh
    \/ BackToCompleted
    \/ CountFailedAttempt
    \/ MarkFailed
    \/ EndPass

SpecProcessor == ProcInit /\ [][ProcNext]_vars

(***************************************************************************)
(* The same under the scheduling of the event loop: the processor task is  *)
(* never cancelled, every await of it returns (the database answers, the   *)
(* AI service returns a result or raises, a sleep ends), so a step of the  *)
(* processor that can be taken is eventually taken.                        *)
(***************************************************************************)
ProcessorStep ==
    \/ Poll
    \/ \E c \in CallIds : Claim(c)
    \/ ClaimRefresh
    \/ LoadPackets
    \/ AIServiceReturns
    \/ AIServiceFails
    \/ AIServiceRaisesOther
    \/ Backoff
    \/ StoreResult
    \/ StoreRefresh
    \/ BackToCompleted
    \/ CountFailedAttempt
    \/ MarkFailed
    \/ EndPass

SpecProcessorFair ==
    ProcInit /\ [][ProcNext]_vars /\ WF_vars(ProcessorStep)

(***************************************************************************)
(* Two instances of the service on one database.  The second instance runs *)
(* the same CallProcessor; of its pass only the claim is kept: it polls a  *)
(* call as COMPLETED and commits PROCESSING_AI for it.                     *)
(***************************************************************************)
OtherInstanceClaims(c) ==
    /\ db[c].status = COMPLETED
    /\ LET u == update_call_status(db[c], PROCESSING_AI, NULL,
                                   db[c].completed_at + 1)
       IN db' = [db EXCEPT ![c] = Flush(db[c], db[c], u.call)]
    /\ UNCHANGED <<call_packets, req_vars, proc_vars, sm, tracker, posted>>

InstancesNext ==
    \/ ProcNext
    \/ \E c \in CallIds : OtherInstanceClaims(c)

SpecInstances == ProcInit /\ [][InstancesNext]_vars

(***************************************************************************)
(* The boundary of stream_packet: bodies of every kind are posted by one   *)
(* client, each request run to its response before the next.  FastAPI      *)
(* validates the body against PacketMetadata before the handler is called  *)
(* and answers 422 when it does not fit.                                   *)
(***************************************************************************)
BoundaryMaxPosts == 3    \* requests of the boundary run
BoundarySequences == -1..1
BoundaryData == {<< >>, <<1>>}
BoundaryTimestamps == -1..1

\* Variant of PacketMetadata that accepts a timestamp of 0 (ge for gt).
PacketMetadata_with_timestamp_ge_0(packet) ==
    /\ packet.sequence >= 0
    /\ Len(packet.data) >= 1
    /\ packet.timestamp >= 0

\* PacketMetadata: sequence ge=0, data min_length=1, timestamp gt=0.
PacketMetadata(packet) ==
    /\ packet.sequence >= 0
    /\ Len(packet.data) >= 1
    /\ packet.timestamp > 0

BoundaryInit ==
    /\ MainInit
    /\ sm = sm0
    /\ tracker = tracker0
    /\ posted = NoPacket

\* POST /v1/call/stream/{call_id} with any body, up to the response:
\* validation, then get_or_create_call and add_packet.
StreamPacketPosted(call_id, sequence, data, timestamp) ==
    /\ started < BoundaryMaxPosts
    /\ started' = started + 1
    /\ posted' = [call_id |-> call_id, sequence |-> sequence, data |-> data,
                  timestamp |-> timestamp]
    /\ IF PacketMetadata(posted')
       THEN LET call == IF db[call_id].status = ABSENT THEN Call
                        ELSE db[call_id]
                r == add_packet(call, sequence)
            IN /\ db' = [db EXCEPT ![call_id] = Flush(call, call, r.call)]
               /\ call_packets' = [call_packets EXCEPT ![call_id] =
                       Append(@, [sequence |-> sequence, data |-> data])]
               /\ accepted' = [accepted EXCEPT ![call_id] = Append(@, sequence)]
               /\ response' = [op |-> "stream", call_id |-> call_id,
                               status_code |-> 202,
                               status |-> IF r.is_in_order THEN "accepted"
                                          ELSE "accepted_with_warning",
                               updated |-> TRUE]
       ELSE /\ response' = [op |-> "stream", call_id |-> call_id,
                            status_code |-> 422, status |-> "error",
                            updated |-> FALSE]
            /\ UNCHANGED <<db, call_packets, accepted>>
    /\ UNCHANGED <<req, proc_pc, pending, current, session, audio_data,
                   attempt_number, raised, polls, is_running, slept, claimed,
                   enriched, sm, tracker>>

BoundaryNext ==
    \E call_id \in CallIds, sequence \in BoundarySequences,
       data \in BoundaryData, timestamp \in BoundaryTimestamps :
        StreamPacketPosted(call_id, sequence, data, timestamp)

SpecBoundary == BoundaryInit /\ [][BoundaryNext]_vars

(***************************************************************************)
(* Properties                                                              *)
(***************************************************************************)
\* The transition table as the design states it.
TableEdges ==
    {<<IN_PROGRESS, COMPLETED>>, <<IN_PROGRESS, FAILED>>,
     <<COMPLETED, PROCESSING_AI>>, <<COMPLETED, ARCHIVED>>,
     <<PROCESSING_AI, COMPLETED>>, <<PROCESSING_AI, FAILED>>,
     <<PROCESSING_AI, ARCHIVED>>,
     <<FAILED, ARCHIVED>>}

InPass == {"claim_refresh", "load_packets", "ai_service", "backoff",
           "store_result", "store_refresh", "back_to_completed",
           "failed", "mark_failed"}

StreamInFlight(c) ==
    \E k \in Clients : req[k].op = "stream" /\ req[k].call_id = c

\* C1: every change of a call's stored status from S to T (S # T) is an
\* edge of the transition table, under any interleaving of ingestion,
\* completion signals and the processor's steps.
C1_StatusChangesAlongEdges ==
    [][\A c \in CallIds :
          (db[c].status # ABSENT /\ db'[c].status # db[c].status)
             => <<db[c].status, db'[c].status>> \in TableEdges]_vars

\* C2: once the processor has successfully enriched a call (results stored,
\* status back to COMPLETED), no later poll cycle claims it again, so a call
\* has at most one successful enrichment pass.
C2_NoDoubleProcessing ==
    \A c \in CallIds :
        /\ enriched[c] <= 1
        /\ enriched[c] >= 1 => ~(current = c /\ proc_pc \in InPass)

\* C3: every element of a call's missing_packets is an integer in
\* [0, expected_sequence), also after overlapping ingests on that call.
C3_MissingBelowCursor ==
    \A c \in CallIds :
        db[c].status # ABSENT =>
            \A m \in ParseMissing(db[c].missing_packets) :
                0 <= m /\ m < db[c].expected_sequence

\* The row after the ingests of `sequences` applied one after the other to
\* a new call.
RECURSIVE OneAfterTheOther(_)
OneAfterTheOther(sequences) ==
    IF sequences = << >> THEN Call
    ELSE add_packet(OneAfterTheOther(SubSeq(sequences, 1, Len(sequences) - 1)),
                    sequences[Len(sequences)]).call

Orders(sequences) ==
    LET n == Len(sequences)
        bijections == {f \in [1..n -> 1..n] : \A i, j \in 1..n : f[i] = f[j] => i = j}
    IN {[i \in 1..n |-> sequences[f[i]]] : f \in bijections}

\* C4: overlapping ingests for one call are serialized: once they are done,
\* expected_sequence, missing_packets and total_packets are what applying
\* the committed ingests one after the other in some order gives.
C4_IngestsSerialized ==
    \A c \in CallIds :
        (db[c].status # ABSENT /\ ~StreamInFlight(c)) =>
            \E order \in Orders(accepted[c]) :
                LET row == OneAfterTheOther(order)
                IN /\ db[c].expected_sequence = row.expected_sequence
                   /\ db[c].missing_packets = row.missing_packets
                   /\ db[c].total_packets = row.total_packets

\* C5: a call's total_packets equals the number of ingests accepted for it,
\* which is the number of packets stored for it.
C5_TotalPacketsCountsIngests ==
    \A c \in CallIds :
        db[c].status # ABSENT =>
            /\ db[c].total_packets = Len(call_packets[c])
            /\ db[c].total_packets = Len(accepted[c])

\* C6: transition accepts exactly the table: for every pair (from, to) of
\* statuses it succeeds and returns `to` when from = to or (from, to) is an
\* edge of the table, and raises a StateTransitionError naming both states
\* for every other pair.
C6_TransitionAcceptsExactlyTable ==
    sm.steps > 0 =>
        IF sm.from = sm.to \/ <<sm.from, sm.to>> \in TableEdges
        THEN sm.ok /\ sm.returned = sm.to /\ sm.status = sm.to
        ELSE ~sm.ok /\ sm.error = <<sm.from, sm.to>> /\ sm.status = sm.from

C6_Witness ==
    sm.steps > 0 /\ sm.from = FAILED /\ sm.to = COMPLETED /\ ~sm.ok

\* C7: transition(S, S) succeeds and returns S for every status S, the
\* terminal status ARCHIVED included.
C7_SameStateSucceeds ==
    (sm.steps > 0 /\ sm.from = sm.to) => (sm.ok /\ sm.returned = sm.from)

C7_Witness ==
    sm.steps > 0 /\ sm.from = ARCHIVED /\ sm.to = ARCHIVED /\ sm.ok

\* C8: one ingest with sequence s on a call with cursor c and missing set
\* M gives: s = c: cursor s+1, M unchanged, in order; s > c: cursor s+1,
\* missing M with all of [c, s) added, not in order (0 then 4 gives
\* {1,2,3}); s < c: cursor and M unchanged (a late packet does not leave
\* M), not in order.
C8_IngestCases ==
    tracker.sequences # << >> =>
        LET n == Len(tracker.sequences)
            s == tracker.sequences[n]
            c == tracker.before.expected_sequence
            M == ParseMissing(tracker.before.missing_packets)
            cursor == tracker.call.expected_sequence
            missing == ParseMissing(tracker.call.missing_packets)
            inOrder == tracker.in_order[n]
        IN /\ s = c => (cursor = s + 1 /\ missing = M /\ inOrder)
           /\ s > c => (cursor = s + 1 /\ missing = M \cup {i \in 0..s : c <= i /\ i < s}
                        /\ ~inOrder)
           /\ s < c => (cursor = c /\ missing = M /\ ~inOrder)
           /\ tracker.sequences = <<0, 4>> => missing = {1, 2, 3}

C8_Witness ==
    /\ tracker.sequences = <<0, 4, 2>>
    /\ ParseMissing(tracker.call.missing_packets) = {1, 2, 3}
    /\ tracker.call.expected_sequence = 5
    /\ tracker.in_order = <<TRUE, FALSE, FALSE>>

\* C9: when packets 0, 1, ..., n-1 are ingested one after another for a new
\* call, every packet is reported in order, missing_packets is empty after
\* each of them and expected_sequence is n at the end.
C9_IncreasingFromZero ==
    (\A i \in DOMAIN tracker.sequences : tracker.sequences[i] = i - 1) =>
        /\ \A i \in DOMAIN tracker.in_order : tracker.in_order[i]
        /\ tracker.call.missing_packets = << >>
        /\ tracker.call.expected_sequence = Len(tracker.sequences)

C9_Witness ==
    /\ tracker.sequences = <<0, 1, 2, 3>>
    /\ tracker.call.expected_sequence = 4
    /\ tracker.in_order = <<TRUE, TRUE, TRUE, TRUE>>

\* C10: a processing pass increases a call's ai_processing_attempts by the
\* number of invocations of the AI service made in that pass, so a pass of
\* MAX_RETRY_ATTEMPTS failed invocations on a call with 0 attempts leaves
\* ai_processing_attempts = MAX_RETRY_ATTEMPTS.
C10_AttemptsCountInvocations ==
    [][(proc_pc \in {"store_result", "failed"} /\ proc_pc' # proc_pc) =>
          db'[current].ai_processing_attempts =
              db[current].ai_processing_attempts + attempt_number]_vars

\* C11: when the enrichment of a claimed call fails on every attempt until
\* the retries are exhausted, or fails once with a failure that is not
\* retried, the pass ends with the call's stored status FAILED and a
\* non-empty error_message.
C11_FailedPassEndsFailed ==
    [][(/\ proc_pc = "mark_failed"
        /\ proc_pc' = "for_call"
        /\ raised \in {RetryExhausted, OtherError})
          => /\ db'[current].status = FAILED
             /\ db'[current].error_message # NULL]_vars

\* C12: for a call that received only packet 0, was completed by the
\* completion signal and is then claimed, when the first invocation of the
\* AI service succeeds the pass ends with status COMPLETED, transcription
\* and sentiment set, ai_processed_at set and ai_processing_attempts = 1.
C12_FirstPassSucceeds ==
    [][(/\ proc_pc = "back_to_completed"
        /\ proc_pc' \notin {"back_to_completed", "cancelled"}
        /\ attempt_number = 1
        /\ claimed[current] = 1
        /\ accepted[current] = <<0>>)
          => /\ proc_pc' = "for_call"
             /\ db'[current].status = COMPLETED
             /\ db'[current].transcription # NULL
             /\ db'[current].sentiment # NULL
             /\ db'[current].ai_processed_at
             /\ db'[current].ai_processing_attempts = 1]_vars

C12_Witness ==
    /\ proc_pc = "for_call"
    /\ current \in CallIds
    /\ attempt_number = 1
    /\ claimed[current] = 1
    /\ enriched[current] = 1
    /\ accepted[current] = <<0>>
    /\ db[current].status = COMPLETED
    /\ db[current].ai_processing_attempts = 1

\* C13: within one pass the AI service is invoked at most
\* MAX_RETRY_ATTEMPTS (5) times: after the 5th failure in a row there is no
\* wait and no 6th invocation, and the retry sequence stops with a failure.
C13_AtMostMaxAttempts ==
    /\ attempt_number <= 5
    /\ proc_pc = "backoff" => attempt_number < 5
    /\ raised = RetryExhausted =>
          attempt_number = 5 /\ proc_pc \in {"failed", "mark_failed"}

C13_Witness ==
    proc_pc = "failed" /\ raised = RetryExhausted /\ attempt_number = 5

MaxWaitAttempt == 8      \* attempts whose wait is computed

\* C14: the wait before attempt k (k >= 2) is
\* min(initialWait * multiplier^(k-2), maxWait) with initialWait 1,
\* multiplier 2, maxWait 60, and nothing is waited before attempt 1: the
\* waits before attempts 2, 3, 4, 5 are 1, 2, 4, 8.
C14_WaitBeforeAttempt ==
    /\ \A k \in 2..MaxWaitAttempt :
          wait_exponential(k - 1) = Min(1 * Pow(2, k - 2), 60)
    /\ proc_pc = "ai_service" => Len(slept) = attempt_number - 1
    /\ proc_pc = "backoff" => Len(slept) = attempt_number
    /\ \A i \in DOMAIN slept : slept[i] = <<1, 2, 4, 8>>[i]

C14_Witness ==
    proc_pc = "ai_service" /\ attempt_number = 5 /\ slept = <<1, 2, 4, 8>>

\* C15: a failure of an invocation that is not of the retryable kind is
\* never retried: it reaches the processor at once, no wait is computed for
\* it and no invocation follows it in the pass (one invocation when the
\* first one fails so).
C15_OtherFailureNotRetried ==
    raised = OtherError =>
        /\ proc_pc \in {"failed", "mark_failed"}
        /\ Len(slept) = attempt_number - 1

C15_Witness ==
    /\ raised = OtherError
    /\ proc_pc = "mark_failed"
    /\ attempt_number = 1
    /\ slept = << >>

\* C16: no call is left claimed: once the processor has exited at shutdown
\* (stop() and the cancellation of its task), no call it claimed has the
\* stored status PROCESSING_AI, because the call being reconciled is
\* finished first.
C16_NoCallLeftClaimed ==
    proc_pc = "cancelled" =>
        \A c \in CallIds : db[c].status # PROCESSING_AI

FailureStep ==
    /\ proc_pc' # proc_pc
    /\ \/ proc_pc \in {"failed", "mark_failed"}
       \/ proc_pc \in InPass /\ proc_pc' = "failed"

CompleteCallDone(k) ==
    /\ req[k].op = "complete"
    /\ req[k].pc # "idle"
    /\ req'[k] = Idle

\* C18: the completion signal sets the status COMPLETED when the call it
\* finds is IN_PROGRESS or PROCESSING_AI; it fails with 404 when there is
\* no call with that call_id and with 400 when the call's status is FAILED
\* or ARCHIVED, and in both failure cases no field of any call changes.
C18_CompleteCallOutcomes ==
    [][\A k \in Clients :
          LET c == req[k].call_id
              found == IF req[k].pc = "get_call_by_id"
                       THEN db[c].status ELSE req[k].call.status
          IN /\ CompleteCallDone(k) =>
                  /\ response'.op = "complete" /\ response'.call_id = c
                  /\ found = ABSENT =>
                        response'.status_code = 404 /\ db' = db
                  /\ found \in {FAILED, ARCHIVED} =>
                        response'.status_code = 400 /\ db' = db
                  /\ found \in {IN_PROGRESS, PROCESSING_AI} =>
                        /\ response'.status_code = 200
                        /\ response'.status = COMPLETED
                        /\ db'[c].status = COMPLETED
             /\ (req[k].pc = "get_call_by_id"
                 /\ found \in {IN_PROGRESS, PROCESSING_AI}) =>
                   (req'[k] = req[k] \/ req'[k].pc = "update_call_status")]_vars

C18_Witness ==
    /\ response.op = "complete"
    /\ response.status_code = 400
    /\ db[response.call_id].status = FAILED
    /\ db[response.call_id].error_message # NULL

\* C19: the completion signal is idempotent: for a call that is already
\* COMPLETED it succeeds, reports COMPLETED and leaves the call unchanged,
\* so a second signal after the first adds nothing to it.
C19_CompleteCallIdempotent ==
    [][\A k \in Clients :
          (/\ req[k].pc = "get_call_by_id"
           /\ req'[k] # req[k]
           /\ db[req[k].call_id].status = COMPLETED)
             => /\ req'[k] = Idle
                /\ db' = db
                /\ response'.op = "complete"
                /\ response'.call_id = req[k].call_id
                /\ response'.status_code = 200
                /\ response'.status = COMPLETED]_vars

C19_Witness ==
    /\ response.op = "complete"
    /\ response.status_code = 200
    /\ response.status = COMPLETED
    /\ ~response.updated
    /\ db[response.call_id].status = COMPLETED
    /\ db[response.call_id].completed_at = 1

\* C20: a call that exists with no packet and receives the completion
\* signal becomes COMPLETED without error, and a pass of the processor on
\* it runs with the empty payload without an unexpected error.
C20_CallWithoutPackets ==
    [][/\ \A k \in Clients :
             LET c == req[k].call_id
             IN (/\ req[k].op = "complete"
                 /\ req'[k] # req[k]
                 /\ call_packets[c] = << >>
                 /\ db[c].status = IN_PROGRESS)
                   => \/ req'[k].pc = "update_call_status"
                      \/ /\ req'[k] = Idle
                         /\ response'.status_code = 200
                         /\ response'.status = COMPLETED
                         /\ db'[c].status = COMPLETED
       /\ (/\ proc_pc = "load_packets"
           /\ proc_pc' \notin {"load_packets", "cancelled"}
           /\ call_packets[current] = << >>)
             => /\ proc_pc' = "ai_service"
                /\ audio_data' = << >>
                /\ raised' = NoException]_vars

C20_Witness ==
    /\ proc_pc = "ai_service"
    /\ current \in CallIds
    /\ call_packets[current] = << >>
    /\ audio_data = << >>
    /\ db[current].total_packets = 0
    /\ db[current].status = PROCESSING_AI

Malformed(packet) ==
    packet.sequence < 0 \/ packet.data = << >> \/ packet.timestamp <= 0

\* C21: a packet with a negative sequence, an empty payload or a
\* non-positive timestamp is rejected before the handler runs: no call is
\* created, no packet is stored, and no call's cursor, missing set or
\* total_packets changes.
C21_MalformedRejected ==
    [][(posted' # posted /\ Malformed(posted'))
          => /\ response'.status_code = 422
             /\ db' = db
             /\ call_packets' = call_packets
             /\ accepted' = accepted]_vars

C21_Witness ==
    /\ posted.timestamp = 0
    /\ posted.sequence = 1
    /\ posted.data = <<1>>
    /\ response.status_code = 422
    /\ db[posted.call_id].status = ABSENT
    /\ \E c \in CallIds : db[c].status = IN_PROGRESS

\* C22: ingestion never waits on the processor: whatever the processor is
\* doing (sleeping, awaiting the AI service, in a backoff, reconciling), the
\* next step of every ingest in flight can be taken, also for the call
\* being enriched, and no step of an ingest touches the processor's state
\* or invokes the AI service.
C22_IngestNeverWaits ==
    \A k \in Clients :
        LET ProcessorUntouched ==
                UNCHANGED <<proc_pc, current, attempt_number, session>>
        IN /\ req[k].pc = "get_or_create" =>
                 ENABLED (GetOrCreateSelect(k) /\ ProcessorUntouched)
           /\ req[k].pc = "create" =>
                 ENABLED (GetOrCreateInsert(k) /\ ProcessorUntouched)
           /\ req[k].pc = "refresh" =>
                 ENABLED (GetOrCreateRefresh(k) /\ ProcessorUntouched)
           /\ req[k].pc = "add_packet" =>
                 ENABLED (AddPacketCommit(k) /\ ProcessorUntouched)

C22_Witness ==
    /\ proc_pc \in {"ai_service", "backoff"}
    /\ current \in CallIds
    /\ audio_data = << >>
    /\ Len(call_packets[current]) >= 1
    /\ response.op = "stream"
    /\ response.call_id = current
    /\ response.status_code = 202

\* C23: a FAILED call is never retried: once a call's stored status is
\* FAILED no operation moves it to a status other than ARCHIVED, so the
\* processor never claims it or invokes the AI service for it again.
C23_FailedStaysFailed ==
    [][\A c \in CallIds :
          db[c].status = FAILED => db'[c].status \in {FAILED, ARCHIVED}]_vars

\* C25: a call's expected_sequence starts at 0 and never decreases, also
\* when ingests on the call overlap.
C25_CursorNeverDecreases ==
    [][\A c \in CallIds :
          /\ (db[c].status = ABSENT /\ db'[c].status # ABSENT) =>
                db'[c].expected_sequence = 0
          /\ db[c].status # ABSENT =>
                db'[c].expected_sequence >= db[c].expected_sequence]_vars

\* C28: when the retries are exhausted, what the retry wrapper raises to
\* the processor is the last AIServiceError itself, handled by the branch
\* for AI failures, and the error_message stored with FAILED contains that
\* failure's message.
C28_LastFailureSurfaced ==
    [][(/\ proc_pc = "ai_service"
        /\ proc_pc' = "failed"
        /\ attempt_number = MAX_RETRY_ATTEMPTS
        /\ raised' # OtherError)
          => /\ raised' = "AIServiceError"
             /\ ErrorMessage(raised') =
                   "AI service failed after retries: 503 Service Unavailable"]_vars

\* C24: when ingests for one unseen call_id overlap, every request ends
\* either accepted (202, its packet stored) or with a reported error (500,
\* nothing written); an error is only given to a request that found no row
\* and lost the INSERT, so that the row exists (once: call_id is the key);
\* a call whose ingests are over has at least one accepted packet, and an
\* ingest that finds the row is accepted.
C24_ConcurrentCreation ==
    [][/\ \A c \in CallIds :
             (db[c].status # ABSENT /\ ~StreamInFlight(c)) =>
                 Len(accepted[c]) >= 1
       /\ \A k \in Clients :
             LET c == req[k].call_id
             IN (req[k].op = "stream" /\ req[k].pc # "idle" /\ req'[k] = Idle)
                  => /\ response'.op = "stream"
                     /\ response'.call_id = c
                     /\ \/ /\ response'.status_code = 202
                           /\ accepted'[c] = Append(accepted[c], req[k].sequence)
                           /\ Len(call_packets'[c]) = Len(call_packets[c]) + 1
                           /\ db'[c].status # ABSENT
                        \/ /\ response'.status_code = 500
                           /\ req[k].pc = "create"
                           /\ db[c].status # ABSENT
                           /\ db' = db
                           /\ call_packets' = call_packets
                           /\ accepted' = accepted]_vars

C24_Witness ==
    /\ response.op = "stream"
    /\ response.status_code = 500
    /\ started = 3
    /\ \A k \in Clients : req[k].pc = "idle"
    /\ db[response.call_id].status = IN_PROGRESS
    /\ Len(accepted[response.call_id]) = 2
    /\ Len(call_packets[response.call_id]) = 2

\* C26: the claim is a compare-and-set on the stored status: a claim
\* written when the stored status is no longer the COMPLETED the processor
\* read at the poll does not succeed, so a call that another instance has
\* claimed meanwhile is not claimed a second time.
C26_ClaimIsCompareAndSet ==
    [][\A c \in CallIds :
          claimed'[c] > claimed[c] => db[c].status = COMPLETED]_vars

\* C27: when the claim of a call fails because its state changed since the
\* poll, the processor skips the call for this cycle: it goes on with the
\* next call of the list, invokes no AI service for it, and leaves the
\* call's status, ai_processing_attempts and error_message as they are.
C27_FailedClaimSkipsCall ==
    [][\A c \in pending :
          (/\ proc_pc = "for_call"
           /\ pending' = pending \ {c}
           /\ db[c].status # COMPLETED)
             => /\ proc_pc' = "for_call"
                /\ db'[c] = db[c]]_vars

\* C29: claim before work: the AI service is invoked for a call only after
\* the processor has committed PROCESSING_AI for it in the same pass (the
\* invocation is reached only through the claim's commit, the refresh and
\* the packet load of that call), and only calls that the poll read as
\* COMPLETED are claimed, so none that is still IN_PROGRESS.
C29_ClaimBeforeWork ==
    [][/\ (proc_pc = "sleep" /\ proc_pc' # "sleep") =>
             \A c \in pending' : db[c].status = COMPLETED
       /\ (proc_pc # "sleep" /\ proc_pc' # "sleep") => pending' \subseteq pending
       /\ (proc_pc' = "claim_refresh" /\ proc_pc # "claim_refresh") =>
             /\ current' \in pending
             /\ session[current'].status = COMPLETED
             /\ db'[current'].status = PROCESSING_AI
       /\ (proc_pc' = "load_packets" /\ proc_pc # "load_packets") =>
             proc_pc = "claim_refresh" /\ current' = current
       /\ (proc_pc' = "ai_service" /\ proc_pc # "ai_service") =>
             proc_pc \in {"load_packets", "backoff"} /\ current' = current
       /\ (proc_pc' = "backoff" /\ proc_pc # "backoff") =>
             proc_pc = "ai_service" /\ current' = current]_vars

C29_Witness ==
    /\ proc_pc = "ai_service"
    /\ current \in CallIds
    /\ claimed[current] = 1
    /\ \E c \in CallIds :
          /\ db[c].status = IN_PROGRESS
          /\ Len(accepted[c]) >= 1
          /\ claimed[c] = 0

(***************************************************************************)
(* The packet load alone: call 1 has been claimed and holds any list of    *)
(* stored packets; the payload of the packet stored i-th is i.             *)
(***************************************************************************)
CombineMaxLen == 4       \* packets stored for the call
CombineMaxSeq == 2       \* their sequences

StoredSequences ==
    UNION {[1..n -> 0..CombineMaxSeq] : n \in 0..CombineMaxLen}

CombineInit ==
    \E sequences \in StoredSequences :
        LET row == [OneAfterTheOther(sequences) EXCEPT
                       !.status = PROCESSING_AI, !.completed_at = 1]
        IN /\ db = [c \in CallIds |-> IF c = 1 THEN row ELSE NoCall]
           /\ call_packets = [c \in CallIds |->
                 IF c = 1
                 THEN [i \in 1..Len(sequences) |->
                          [sequence |-> sequences[i], data |-> i]]
                 ELSE << >>]
           /\ accepted = [c \in CallIds |-> IF c = 1 THEN sequences ELSE << >>]
           /\ session = [c \in CallIds |-> IF c = 1 THEN row ELSE NoCall]
           /\ claimed = [c \in CallIds |-> IF c = 1 THEN 1 ELSE 0]
           /\ req = [k \in Clients |-> Idle]
           /\ started = 0
           /\ proc_pc = "load_packets"
           /\ pending = {}
           /\ current = 1
           /\ audio_data = << >>
           /\ attempt_number = 0
           /\ raised = NoException
           /\ polls = 1
           /\ is_running = TRUE
           /\ slept = << >>
           /\ response = NoResponse
           /\ enriched = [c \in CallIds |-> 0]
           /\ sm = sm0
           /\ tracker = tracker0
           /\ posted = NoPacket

CombineNext == LoadPackets

SpecCombine == CombineInit /\ [][CombineNext]_vars

\* C30: the payload sent to the AI service holds the payload of every
\* packet stored for the call at load time, duplicates included, in
\* non-decreasing order of sequence, packets of equal sequence in their
\* stored order; for the sequences 0, 1, 2 it is payload 0, 1, 2.
C30_CombinedPayload ==
    proc_pc = "ai_service" =>
        LET ps == call_packets[current]
            n == Len(ps)
        IN /\ Len(audio_data) = n
           /\ {audio_data[i] : i \in 1..n} = {ps[i].data : i \in 1..n}
           /\ \A i, j \in 1..n :
                 i < j =>
                    \/ ps[audio_data[i]].sequence < ps[audio_data[j]].sequence
                    \/ /\ ps[audio_data[i]].sequence = ps[audio_data[j]].sequence
                       /\ audio_data[i] < audio_data[j]
           /\ accepted[current] = <<0, 1, 2>> => audio_data = <<1, 2, 3>>
           /\ accepted[current] = <<2, 0, 1>> => audio_data = <<2, 3, 1>>

C30_Witness ==
    /\ proc_pc = "ai_service"
    /\ accepted[current] = <<1, 0, 1, 0>>
    /\ audio_data = <<2, 4, 1, 3>>

\* C31: in every reachable state, a call whose stored status is FAILED has
\* a non-empty error_message.
C31_FailedHasErrorMessage ==
    \A c \in CallIds :
        db[c].status = FAILED =>
            /\ db[c].error_message # NULL
            /\ db[c].error_message # ""

C31_Witness ==
    \E c \in CallIds :
        /\ db[c].status = FAILED
        /\ db[c].error_message = ErrorMessage(RetryExhausted)
        /\ db[c].ai_processing_attempts = 1
        /\ proc_pc = "sleep"

\* C32: transcription and sentiment are written only by the step that
\* stores the result of a successful invocation of the AI service for that
\* call (so they are NULL until one has succeeded), error_message is
\* written only together with the status FAILED (so it is NULL until the
\* call has entered FAILED), and no step of an ingest or of a completion
\* signal writes any of the three.
C32_ResultFieldsWrittenByProcessor ==
    [][/\ \A c \in CallIds :
             /\ db[c].status = ABSENT =>
                   /\ db'[c].transcription = NULL
                   /\ db'[c].sentiment = NULL
                   /\ db'[c].error_message = NULL
             /\ (\/ db'[c].transcription # db[c].transcription
                 \/ db'[c].sentiment # db[c].sentiment) =>
                   /\ proc_pc = "store_result"
                   /\ current = c
                   /\ raised = NoException
             /\ db'[c].error_message # db[c].error_message =>
                   /\ proc_pc = "mark_failed"
                   /\ current = c
                   /\ db'[c].status = FAILED
             /\ (req' # req \/ response' # response) =>
                   /\ db'[c].transcription = db[c].transcription
                   /\ db'[c].sentiment = db[c].sentiment
                   /\ db'[c].error_message = db[c].error_message
       /\ (proc_pc' = "store_result" /\ proc_pc # "store_result") =>
             /\ proc_pc = "ai_service"
             /\ current' = current
             /\ raised' = NoException]_vars

C32_Witness ==
    \E c \in CallIds :
        /\ db[c].transcription # NULL
        /\ db[c].sentiment # NULL
        /\ db[c].error_message # NULL
        /\ Len(accepted[c]) = 1
        /\ claimed[c] = 2

\* C33: packets are append-only: no step of an ingest, a completion signal
\* or the processor (claim, enrichment, reconcile) changes or removes a
\* stored packet; a call's stored packets only grow, by exactly the packet
\* of the request at each accepted ingest (one that ends with 202).
C33_PacketsAppendOnly ==
    [][\A c \in CallIds :
          LET Accepted(k) ==
                  /\ req[k].op = "stream"
                  /\ req[k].call_id = c
                  /\ req[k].pc # "idle"
                  /\ req'[k] = Idle
                  /\ response'.status_code = 202
          IN IF \E k \in Clients : Accepted(k)
             THEN \E k \in Clients :
                     /\ Accepted(k)
                     /\ call_packets'[c] =
                           Append(call_packets[c],
                                  [sequence |-> req[k].sequence,
                                   data |-> req[k].data])
             ELSE call_packets'[c] = call_packets[c]]_vars

C33_Witness ==
    \E c \in CallIds :
        /\ Len(call_packets[c]) = 2
        /\ call_packets[c][1].sequence = call_packets[c][2].sequence
        /\ call_packets[c][1].data # call_packets[c][2].data
        /\ db[c].status = FAILED
        /\ response.op = "stream"
        /\ response.status_code = 202

\* C34: a same-state status update is a no-op: when update_call_status is
\* applied with the call's own status as target (COMPLETED to COMPLETED at
\* step 6 of the processor, the call having been completed again during
\* the pass), it succeeds and leaves every field of the call unchanged,
\* completed_at and error_message included.
C34_SameStateUpdateIsNoOp ==
    [][(/\ proc_pc = "back_to_completed"
        /\ proc_pc' \notin {"back_to_completed", "cancelled"}
        /\ session[current].status = COMPLETED
        /\ db[current].status = COMPLETED)
          => /\ proc_pc' = "for_call"
             /\ db'[current] = db[current]]_vars

\* C35: an unexpected error (none of the AI service's own) raised after
\* the claim is caught by the processor, which counts the attempt and then
\* tries to move the call to FAILED with an error message; when that update
\* itself raises (the transition is rejected), the error is swallowed:
\* nothing is written, nothing propagates out of the processing of the
\* call, and the pass goes on with the calls left in its list.
C35_UnexpectedErrorHandled ==
    [][/\ (proc_pc' = "failed" /\ proc_pc # "failed") =>
             /\ raised' \in {OtherError, RetryExhausted, "StateTransitionError"}
             /\ current' = current
             /\ pending' = pending
             /\ db' = db
       /\ (proc_pc = "failed" /\ proc_pc' # "failed") =>
             /\ proc_pc' = "mark_failed"
             /\ raised' = raised
             /\ pending' = pending
       /\ (proc_pc = "mark_failed" /\ proc_pc' # "mark_failed") =>
             /\ proc_pc' = "for_call"
             /\ raised' = NoException
             /\ pending' = pending
             /\ current' = current
             /\ is_running'
             /\ \/ /\ db'[current].status = FAILED
                   /\ db'[current].error_message = ErrorMessage(raised)
                \/ /\ ~can_transition(session[current].status, FAILED)
                   /\ db' = db]_vars

C35_Witness ==
    /\ proc_pc = "for_call"
    /\ pending # {}
    /\ current \in CallIds
    /\ raised = NoException
    /\ attempt_number = 1
    /\ db[current].status = COMPLETED
    /\ db[current].ai_processing_attempts = 1
    /\ db[current].transcription = NULL
    /\ db[current].error_message = NULL

\* C36: an ingest is accepted for a call in any status (no status is
\* checked: a request that finds the row goes on to add_packet, and
\* add_packet ends with 202) and changes only expected_sequence,
\* missing_packets, total_packets and the stored packets: the call's
\* status, transcription, sentiment, ai_processing_attempts,
\* ai_processed_at, error_message and completed_at are left as stored.
C36_IngestInAnyStatus ==
    [][\A k \in Clients :
          LET c == req[k].call_id
          IN (req[k].op = "stream" /\ req'[k] # req[k]) =>
                /\ (req[k].pc = "get_or_create" /\ db[c].status # ABSENT) =>
                      req'[k].pc = "add_packet"
                /\ req[k].pc = "add_packet" =>
                      /\ req'[k] = Idle
                      /\ response'.status_code = 202
                      /\ Len(call_packets'[c]) = Len(call_packets[c]) + 1
                /\ \A col \in {"status", "transcription", "sentiment",
                               "ai_processing_attempts", "ai_processed_at",
                               "error_message", "completed_at"} :
                      db[c].status # ABSENT => db'[c][col] = db[c][col]]_vars

C36_Witness ==
    /\ response.op = "stream"
    /\ response.status_code = 202
    /\ response.status = "accepted_with_warning"
    /\ db[response.call_id].status = COMPLETED
    /\ db[response.call_id].transcription # NULL
    /\ db[response.call_id].total_packets = 2
    /\ db[response.call_id].completed_at = 2

\* C37: no sequence of ingests, completion signals and processor steps
\* stores the status ARCHIVED: the stored status of a call is IN_PROGRESS,
\* COMPLETED, PROCESSING_AI or FAILED, and so is every status a request or
\* the processor's session holds.
C37_NeverArchived ==
    /\ \A c \in CallIds :
          /\ db[c].status \in {ABSENT, IN_PROGRESS, COMPLETED, PROCESSING_AI,
                               FAILED}
          /\ session[c].status # ARCHIVED
    /\ \A k \in Clients : req[k].call.status # ARCHIVED

C37_Witness ==
    /\ \E c \in CallIds : db[c].status = FAILED
    /\ \E c \in CallIds : db[c].status = IN_PROGRESS /\ db[c].total_packets = 1
    /\ started = MaxRequests
    /\ \A k \in Clients : req[k].pc = "idle"
    /\ proc_pc = "cancelled"

\* C38: while the processor keeps running and every invocation of the AI
\* service returns or raises, a call whose stored status is COMPLETED
\* (with a poll cycle still to come) is eventually claimed: its stored
\* status becomes PROCESSING_AI.
C38_CompletedEventuallyClaimed ==
    \A c \in CallIds :
        (db[c].status = COMPLETED /\ polls < MaxPolls)
            ~> (db[c].status = PROCESSING_AI)

\* C39: with the one processor the application starts and no cancellation,
\* calls are processed strictly one at a time: in every reachable state at
\* most one call has the stored status PROCESSING_AI, and the processor
\* claims the next call of a pass only when the call it processed before
\* has been reconciled, its stored status being COMPLETED or FAILED.
C39_OneCallAtATime ==
    [][/\ Cardinality({c \in CallIds : db[c].status = PROCESSING_AI}) <= 1
       /\ Cardinality({c \in CallIds : db'[c].status = PROCESSING_AI}) <= 1
       /\ \A c \in CallIds :
             claimed'[c] > claimed[c] =>
                /\ proc_pc = "for_call"
                /\ current' = c
                /\ \A d \in CallIds \ {c} : db'[d].status # PROCESSING_AI
                /\ current \in CallIds =>
                      db[current].status \in {COMPLETED, FAILED}]_vars

C39_Witness ==
    /\ proc_pc = "ai_service"
    /\ polls = 1
    /\ db[current].status = PROCESSING_AI
    /\ \E c \in CallIds \ {current} :
          /\ claimed[c] = 1
          /\ enriched[c] = 1
          /\ db[c].status = COMPLETED
          /\ db[c].completed_at = 3

====
